---- MODULE Spec2Model ----
(***************************************************************************)
(* The fragment-to-PDF-page locator of the ArbitrIA front-end: the effect  *)
(* of App that runs whenever `selected` changes, in its two versions       *)
(*   "plain"   src/src/App.jsx      (haystack.includes(needle))            *)
(*   "chunked" src/unnamed/part_000 (chunks.some(c => haystack.includes))  *)
(* Texts are sequences of one-character strings.  Of sendMessage only the   *)
(* replacement of `fragments` is kept: history, query and loading are read *)
(* by no part of the locator.                                              *)
(***************************************************************************)
EXTENDS Integers, Sequences, FiniteSets, TLC

\* ------------------------------------------------------------------ bounds
\* Fragment selections (hence scans started) in one behaviour.
MaxScans == 2

\* ------------------------------------------------------- program constants
\* .slice(0, 120)
PrefixLen == 120
\* const chunkSize = 40
chunkSize == 40

\* `null`, the initial value of `selected`
NULL == [idx |-> 0, texto |-> "", pdf_url |-> ""]

Min(a, b) == IF a < b THEN a ELSE b

\* ---------------------------------------------------------------- strings
Lower == << "a", "b", "c", "d", "e", "f", "g", "h", "i", "j", "k", "l", "m",
            "n", "o", "p", "q", "r", "s", "t", "u", "v", "w", "x", "y", "z" >>
Upper == << "A", "B", "C", "D", "E", "F", "G", "H", "I", "J", "K", "L", "M",
            "N", "O", "P", "Q", "R", "S", "T", "U", "V", "W", "X", "Y", "Z" >>

\* The characters the regular expression \s matches (those the texts use).
Whitespace == {" ", "\t", "\n"}

IsSpace(c) == c \in Whitespace

\* String.prototype.replace(/\s+/g, " "): every maximal run of whitespace
\* becomes one space.
replaceWs(s) ==
    LET t == [i \in 1..Len(s) |->
                IF IsSpace(s[i])
                THEN (IF i > 1 /\ IsSpace(s[i-1]) THEN "" ELSE " ")
                ELSE s[i]]
    IN SelectSeq(t, LAMBDA c : c # "")

\* String.prototype.trim()
trim(s) ==
    LET ink == {i \in 1..Len(s) : ~IsSpace(s[i])}
    IN IF ink = {} THEN << >>
       ELSE SubSeq(s, CHOOSE i \in ink : \A j \in ink : i <= j,
                      CHOOSE i \in ink : \A j \in ink : i >= j)

\* String.prototype.toLowerCase()
toLowerCase(s) ==
    [i \in 1..Len(s) |->
        IF \E k \in 1..Len(Upper) : Upper[k] = s[i]
        THEN Lower[CHOOSE k \in 1..Len(Upper) : Upper[k] = s[i]]
        ELSE s[i]]

\* String.prototype.slice(0, end)
slice(s, end) == SubSeq(s, 1, Min(end, Len(s)))

\* String.prototype.substr(start, length), start counted from 0
substr(s, start, length) == SubSeq(s, start + 1, Min(start + length, Len(s)))

\* String.prototype.includes(n)
includes(h, n) ==
    \E k \in 0..(Len(h) - Len(n)) : \A j \in 1..Len(n) : h[k + j] = n[j]

\* Array.prototype.join(" ")
RECURSIVE join(_)
join(items) ==
    IF items = << >> THEN << >>
    ELSE IF Len(items) = 1 THEN items[1]
    ELSE items[1] \o << " " >> \o join(Tail(items))

\* ------------------------------------------------- the locator's pure steps
\* clean without the .slice(0, 120)
clean_noSlice(texto) == toLowerCase(trim(replaceWs(texto)))

\* selected.texto.replace(/\s+/g, " ").trim().toLowerCase().slice(0, 120):
\* `needle` in App.jsx, `clean` in part_000.
clean(texto) == slice(toLowerCase(trim(replaceWs(texto))), PrefixLen)

\* for (let start = 0; start < clean.length; start += chunkSize / 2)
\*   chunks.push(clean.substr(start, chunkSize));
chunks(c) ==
    LET step == chunkSize \div 2
        n    == (Len(c) + step - 1) \div step
    IN [k \in 1..n |-> substr(c, (k - 1) * step, chunkSize)]

\* items.map((it) => it.str).join(" ").replace(/\s+/g, " ").toLowerCase()
haystack(items) == toLowerCase(replaceWs(join(items)))

\* The test of the `if` in the page loop:
\*   App.jsx   haystack.includes(needle)
\*   part_000  chunks.some((c) => haystack.includes(c))
pageMatches(b, c, h) ==
    IF b = "plain" THEN includes(h, c)
    ELSE \E k \in DOMAIN chunks(c) : includes(h, chunks(c)[k])

\* ------------------------------------------------------------------ inputs
\* n letters of the alphabet, repeated: a text with no whitespace in it.
Pad(n) == [i \in 1..n |-> Lower[((i - 1) % 26) + 1]]
PadUpper(n) == [i \in 1..n |-> Upper[((i - 1) % 26) + 1]]

\* Fragment texts (`texto`) and page text items (`it.str`), by name.
Texts ==
    [ gol    |-> << "g", "o", "l" >>,
      mano   |-> << "m", "a", "n", "o" >>,
      var    |-> << "V", "A", "R" >>,
      fuera  |-> << " ", "F", "u", "e", "r", "a", " ", " ", "d", "e", "\n",
                    "J", "U", "E", "G", "O", "\t" >>,
      fuerade |-> << "f", "u", "e", "r", "a", " ", "d", "e" >>,
      juego  |-> << "j", "u", "e", "g", "o" >>,
      Fuera  |-> << "F", "u", "e", "r", "a", "\t", "d", "e" >>,
      blank  |-> << " ", "\t", " " >>,
      empty  |-> << >>,
      \* equal in their first 120 normalized characters, different after
      longX  |-> << " " >> \o PadUpper(120) \o << "x", " ", "u", "n", "o" >>,
      longY  |-> Pad(120) \o << "y", " ", "d", "o", "s" >>,
      pageX  |-> Pad(120) \o << "x", " ", "u", "n", "o" >>,
      \* the 120th normalized character is the space between two words
      cut    |-> PadUpper(119) \o << " ", "\n", "F", "i", "n", " " >>,
      pad119 |-> Pad(119),
      fin    |-> << "f", "i", "n" >>,
      \* 41 normalized characters
      tail   |-> Pad(40) \o << "!" >>,
      golbang |-> << "G", "o", "l", "!" >> ]

TextIds == DOMAIN Texts

\* The documents getDocument can load, by URL: the pages in order, each
\* page the `str` of the items of its text content.
Documents ==
    [ rules |-> << << "gol" >>,
                   << "fuerade", "juego" >>,
                   << "Fuera", "juego", "mano" >> >>,
      one   |-> << << "var" >> >>,
      none  |-> << >>,
      long  |-> << << "gol" >>, << "pageX" >> >>,
      cut   |-> << << "gol" >>, << "pad119", "fin" >> >>,
      blank |-> << << "gol" >>, << >> >>,
      tail  |-> << << "golbang" >>, << "tail" >> >> ]

Urls == DOMAIN Documents

\* The answers of POST /api/chat: each a list of fragments {texto, pdf_url}.
Frag(t, u) == [texto |-> t, pdf_url |-> u]
Responses ==
    << << Frag("mano", "rules"), Frag("var", "one") >>,
       << Frag("fuera", "rules"), Frag("var", "rules") >>,
       << Frag("gol", "none"), Frag("gol", "rules") >>,
       << Frag("longX", "long"), Frag("longY", "long") >>,
       << Frag("cut", "cut"), Frag("blank", "blank") >>,
       << Frag("tail", "tail"), Frag("empty", "blank") >> >>

Builds == {"plain", "chunked"}

\* pdf.numPages
numPages(u) == Len(Documents[u])

\* (await page.getTextContent()).items.map((it) => it.str) of page i
itemsOf(u, i) == [k \in 1..Len(Documents[u][i]) |-> Texts[Documents[u][i][k]]]

\* The needle of each fragment text, the haystack of each page and the
\* outcome of the test for each (build, fragment text, page), tabulated:
\* they depend on the inputs alone.
needleOf == [t \in TextIds |-> clean(Texts[t])]

haystackOf ==
    [u \in Urls |-> [i \in 1..numPages(u) |-> haystack(itemsOf(u, i))]]

matchOf ==
    [b \in Builds |-> [t \in TextIds |-> [u \in Urls |->
        [i \in 1..numPages(u) |->
            pageMatches(b, needleOf[t], haystackOf[u][i])]]]]

\* ------------------------------------------------------------------- state
VARIABLES
    build,       \* which version of App is running: "plain" or "chunked"
    response,    \* the answer the backend gives to the user's queries
    fragments,   \* useState([]): the fragments of the last answer
    replaced,    \* the fragments array was replaced since `selected` was set
    selected,    \* useState(null): NULL or [idx, texto, pdf_url]
    pageNumber,  \* useState(1)
    scans        \* the async scans started by the effect on `selected`, in
                 \* the order they were started

vars == << build, response, fragments, replaced, selected, pageNumber, scans >>

Init ==
    /\ build \in Builds
    /\ response \in 1..Len(Responses)
    /\ fragments = << >>
    /\ replaced = FALSE
    /\ selected = NULL
    /\ pageNumber = 1
    /\ scans = << >>

\* ------------------------------------------------------------ scan records
\* The async function of the effect, suspended at its first await.
\*   frag      the `selected` the closure captured
\*   pc        the await it is suspended at, or "done", or "rejected" when an
\*             error left the function
\*   i         the loop variable (0 before the loop)
\*   requested the pages asked of pdf.getPage, in order
\*   tested    how many haystacks were tested
\*   outcome   which setPageNumber call ended it: "match" (in the loop),
\*             "nomatch" (after the loop), "error" (in the catch)
\*   result    the page passed to setPageNumber (0 while none was)
startScan(frag) ==
    [frag |-> frag, pc |-> "getDocument", i |-> 0, requested |-> << >>,
     tested |-> 0, outcome |-> "pending", result |-> 0]

\* setPageNumber(page) followed by the end of the async function
finish(s, outcome, page) ==
    [s EXCEPT !.pc = "done", !.outcome = outcome, !.result = page]

\* requestPage asking for the next page as well, before page i is tested.
requestPage_prefetch(s, i) ==
    [s EXCEPT !.pc = "getPage", !.i = i,
              !.requested = IF i < numPages(s.frag.pdf_url)
                            THEN @ \o << i, i + 1 >> ELSE Append(@, i)]

\* const page = await pdf.getPage(i)
requestPage(s, i) ==
    [s EXCEPT !.pc = "getPage", !.i = i, !.requested = Append(@, i)]

\* loopFrom with `i < pdf.numPages` as the loop's condition.
loopFrom_skipLast(s, i) ==
    IF i < numPages(s.frag.pdf_url)
    THEN requestPage(s, i)
    ELSE finish(s, "nomatch", 1)

\* loopFrom with the condition tested after the body (do ... while).
loopFrom_doWhile(s, i) ==
    IF i = 1 \/ i <= numPages(s.frag.pdf_url)
    THEN requestPage(s, i)
    ELSE finish(s, "nomatch", 1)

\* The head of `for (let i = 1; i <= pdf.numPages; i++)` reached with i,
\* and, when the loop is over, the fallback setPageNumber(1).
loopFrom(s, i) ==
    IF i <= numPages(s.frag.pdf_url)
    THEN requestPage(s, i)
    ELSE finish(s, "nomatch", 1)

\* testPage without the `return` after setPageNumber(i): the loop goes on.
testPage_noReturn(s) == loopFrom([s EXCEPT !.tested = @ + 1], s.i + 1)

\* The body of the loop once the page's text content is there.
testPage(s) ==
    LET t == [s EXCEPT !.tested = @ + 1]
    IN IF matchOf[build][s.frag.texto][s.frag.pdf_url][s.i]
       THEN finish(t, "match", s.i)
       ELSE loopFrom(t, s.i + 1)

\* catchErr without the catch: the error leaves the async function.
catchErr_rethrow(s) == [s EXCEPT !.pc = "rejected", !.outcome = "error"]

\* catch (err) { console.error(...); setPageNumber(1); }
catchErr(s) == finish(s, "error", 1)

\* The pageNumber state after scan step s: set when the step called
\* setPageNumber.
applied(s) == IF s.pc = "done" THEN s.result ELSE pageNumber

\* ----------------------------------------------------------------- actions
\* sendMessage, on the path where the fetch succeeds:
\* setFragments(fragments || []).  Every answer is an array of new objects.
sendMessage ==
    /\ fragments' = Responses[response]
    /\ replaced' = (selected # NULL)
    /\ UNCHANGED << build, response, selected, pageNumber, scans >>

\* onClick of the trigger of fragment idx: setSelected(frag); when that
\* changes `selected` the effect runs and starts a scan, which calls
\* getDocument(selected.pdf_url) and suspends.
setSelected(idx) ==
    /\ idx \in DOMAIN fragments
    /\ Len(scans) < MaxScans
    /\ LET frag == [idx |-> idx, texto |-> fragments[idx].texto,
                    pdf_url |-> fragments[idx].pdf_url]
       IN /\ replaced \/ selected # frag
          /\ selected' = frag
          /\ replaced' = FALSE
          /\ scans' = Append(scans, startScan(frag))
    /\ UNCHANGED << build, response, fragments, pageNumber >>

\* getDocument(...).promise resolves: the needle is built and the loop entered.
getDocumentResolves(k) ==
    /\ scans[k].pc = "getDocument"
    /\ LET s == loopFrom(scans[k], 1)
       IN /\ scans' = [scans EXCEPT ![k] = s]
          /\ pageNumber' = applied(s)
    /\ UNCHANGED << build, response, fragments, replaced, selected >>

\* pdf.getPage(i) resolves: page.getTextContent() is awaited.
getPageResolves(k) ==
    /\ scans[k].pc = "getPage"
    /\ scans' = [scans EXCEPT ![k].pc = "getTextContent"]
    /\ UNCHANGED << build, response, fragments, replaced, selected, pageNumber >>

\* page.getTextContent() resolves: the haystack is built and tested.
getTextContentResolves(k) ==
    /\ scans[k].pc = "getTextContent"
    /\ LET s == testPage(scans[k])
       IN /\ scans' = [scans EXCEPT ![k] = s]
          /\ pageNumber' = applied(s)
    /\ UNCHANGED << build, response, fragments, replaced, selected >>

\* The promise a scan awaits rejects: control passes to the catch.
awaitRejects(k) ==
    /\ scans[k].pc \in {"getDocument", "getPage", "getTextContent"}
    /\ LET s == catchErr(scans[k])
       IN /\ scans' = [scans EXCEPT ![k] = s]
          /\ pageNumber' = applied(s)
    /\ UNCHANGED << build, response, fragments, replaced, selected >>

Next ==
    \/ sendMessage
    \/ \E idx \in DOMAIN fragments : setSelected(idx)
    \/ \E k \in DOMAIN scans : getDocumentResolves(k)
    \/ \E k \in DOMAIN scans : getPageResolves(k)
    \/ \E k \in DOMAIN scans : getTextContentResolves(k)
    \/ \E k \in DOMAIN scans : awaitRejects(k)

Spec == Init /\ [][Next]_vars

\* ------------------------------------------------------------------ claims
\* The pages of scan s's document that pass the test of the loop.
MatchingPages(s) ==
    {i \in 1..numPages(s.frag.pdf_url) :
        matchOf[build][s.frag.texto][s.frag.pdf_url][i]}

\* Scan s ended with every retrieval it made having succeeded.
Completed(s) == s.pc = "done" /\ s.outcome \in {"match", "nomatch"}

AllDone == \A k \in DOMAIN scans : scans[k].pc = "done"

\* C1 (staleness guard): when a second fragment was selected while the scan
\* of the first was in flight, then once all scans have completed pageNumber
\* is the page the scan of the last selection produced.
C1_LastSelectionWins ==
    (Len(scans) >= 2 /\ AllDone) => pageNumber = scans[Len(scans)].result

\* C2: whenever the selected fragment's document has at least one page, the
\* pageNumber given to <Page> is one of its pages, also while the scan of a
\* new selection is in flight.
C2_PageInRange ==
    (selected # NULL /\ numPages(selected.pdf_url) >= 1)
        => pageNumber \in 1..numPages(selected.pdf_url)

\* C3 (lowest index wins): a scan all of whose retrievals succeeded, on a
\* document with at least one page that passes the test, ends in the loop
\* with the smallest such page.
C3_LowestIndexWins ==
    \A k \in DOMAIN scans :
        (Completed(scans[k]) /\ MatchingPages(scans[k]) # {})
            => /\ scans[k].outcome = "match"
               /\ scans[k].result \in MatchingPages(scans[k])
               /\ \A j \in MatchingPages(scans[k]) : scans[k].result <= j

\* C3's case: a fragment found on pages 2 and 3 was scanned, giving 2.
C3_Witness ==
    \E k \in DOMAIN scans :
        /\ Completed(scans[k])
        /\ {2, 3} \subseteq MatchingPages(scans[k])
        /\ 1 \notin MatchingPages(scans[k])
        /\ scans[k].result = 2

\* C4 (one bad page): a scan that failed to retrieve page i of a loaded
\* document, some later page of which passes the test, gives the first such
\* later page.
C4_BadPageSkipped ==
    \A k \in DOMAIN scans :
        LET s == scans[k]
            later == {j \in MatchingPages(s) : j > s.i}
        IN (s.pc = "done" /\ s.outcome = "error" /\ s.i >= 1 /\ later # {})
            => /\ s.result \in later
               /\ \A j \in later : s.result <= j

\* The scan ended in the catch because getDocument rejected.
LoadFailed(s) == s.pc = "done" /\ s.outcome = "error" /\ s.i = 0

\* C5 (total locate): no scan is ever left by an error; a scan that is over
\* has passed a page number to setPageNumber, which is then the pageNumber
\* state; and a scan whose getDocument rejected passed 1 and asked for no
\* page.
C5_TotalLocate ==
    /\ [](\A k \in DOMAIN scans :
            /\ scans[k].pc \in {"getDocument", "getPage", "getTextContent", "done"}
            /\ scans[k].pc = "done" => scans[k].result >= 1
            /\ LoadFailed(scans[k])
                  => scans[k].result = 1 /\ scans[k].requested = << >>)
    /\ [][\A k \in DOMAIN scans :
            (scans[k].pc # "done" /\ scans'[k].pc = "done")
                => pageNumber' = scans'[k].result]_vars

\* C5's case: getDocument rejected while pageNumber was 3, and it is 1 now.
C5_Witness ==
    \E k, j \in DOMAIN scans :
        /\ LoadFailed(scans[k])
        /\ scans[j].pc = "done" /\ scans[j].result = 3
        /\ pageNumber = 1

\* C6 (fallback on no match): a scan all of whose retrievals succeeded, on a
\* document no page of which passes the test, gives page 1 after the loop,
\* having asked for and tested every page, in order; and no scan takes the
\* fallback after the loop with a page left untested.
C6_FallbackOnNoMatch ==
    \A k \in DOMAIN scans :
        LET s == scans[k]
            n == numPages(s.frag.pdf_url)
        IN /\ (Completed(s) /\ MatchingPages(s) = {})
                => /\ s.outcome = "nomatch"
                   /\ s.result = 1
                   /\ s.tested = n
                   /\ s.requested = [j \in 1..n |-> j]
           /\ s.outcome = "nomatch" => s.tested = n

\* C6's case: a document of three pages was scanned to its end for a text
\* that is on none of them.
C6_Witness ==
    \E k \in DOMAIN scans :
        /\ scans[k].outcome = "nomatch"
        /\ numPages(scans[k].frag.pdf_url) = 3
        /\ scans[k].tested = 3
        /\ pageNumber = 1

\* C7 (empty document): the scan of a document without pages asks for no
\* page and tests none; once the document is loaded it is over, with page 1.
C7_EmptyDocument ==
    \A k \in DOMAIN scans :
        numPages(scans[k].frag.pdf_url) = 0
            => /\ scans[k].requested = << >>
               /\ scans[k].tested = 0
               /\ scans[k].pc \in {"getDocument", "done"}
               /\ scans[k].pc = "done" => scans[k].result = 1

\* C7's case: a document without pages was loaded and its scan is over.
C7_Witness ==
    \E k \in DOMAIN scans :
        /\ numPages(scans[k].frag.pdf_url) = 0
        /\ scans[k].outcome = "nomatch"
        /\ scans[k].result = 1

\* The normalization of the specification: whitespace runs collapsed,
\* trimmed, lower-cased.
Normalized(t) == toLowerCase(trim(replaceWs(t)))

\* The first 120 characters of the normalized text t.
Prefix120(t) == SubSeq(Normalized(t), 1, Min(120, Len(Normalized(t))))

\* Which fragment texts agree on the first 120 normalized characters.
SamePrefix ==
    [t1 \in TextIds |-> [t2 \in TextIds |->
        Prefix120(Texts[t1]) = Prefix120(Texts[t2])]]

\* C8 (prefix truncation): two scans of the same document, all of whose
\* retrievals succeeded, for fragment texts that agree on their first 120
\* normalized characters, give the same page.
C8_PrefixTruncation ==
    \A k1, k2 \in DOMAIN scans :
        LET s1 == scans[k1]
            s2 == scans[k2]
        IN (/\ Completed(s1) /\ Completed(s2)
            /\ s1.frag.pdf_url = s2.frag.pdf_url
            /\ SamePrefix[s1.frag.texto][s2.frag.texto])
            => s1.result = s2.result /\ s1.outcome = s2.outcome

\* C8's case: two texts that differ after their 120th normalized character
\* were both located, on page 2.
C8_Witness ==
    \E k1, k2 \in DOMAIN scans :
        /\ Completed(scans[k1]) /\ Completed(scans[k2])
        /\ scans[k1].frag.pdf_url = scans[k2].frag.pdf_url
        /\ Normalized(Texts[scans[k1].frag.texto])
              # Normalized(Texts[scans[k2].frag.texto])
        /\ SamePrefix[scans[k1].frag.texto][scans[k2].frag.texto]
        /\ scans[k1].result = 2 /\ scans[k2].result = 2

\* Which pages have a text that differs from the fragment text in
\* whitespace and letter case alone.
Equivalent ==
    [t \in TextIds |-> [u \in Urls |-> [i \in 1..numPages(u) |->
        Normalized(Texts[t]) = Normalized(join(itemsOf(u, i)))]]]

\* C9 (normalization equivalence): a page whose text differs from the
\* fragment text in whitespace and letter case alone passes the test: a scan
\* that has tested it ended in the loop, on that page or on one before it.
C9_NormalizationEquivalence ==
    \A k \in DOMAIN scans :
        LET s == scans[k]
        IN \A p \in 1..numPages(s.frag.pdf_url) :
              (Equivalent[s.frag.texto][s.frag.pdf_url][p] /\ s.tested >= p)
                  => s.outcome = "match" /\ s.result <= p

\* C9 for the fragment texts that are not empty once normalized.
C9_NonEmptyNeedle ==
    \A k \in DOMAIN scans :
        LET s == scans[k]
        IN \A p \in 1..numPages(s.frag.pdf_url) :
              (/\ Equivalent[s.frag.texto][s.frag.pdf_url][p]
               /\ s.tested >= p
               /\ Normalized(Texts[s.frag.texto]) # << >>)
                  => s.outcome = "match" /\ s.result <= p

\* The 40-character windows of the needle of text t, taken every 20
\* characters.
FullWindows(t) ==
    {SubSeq(needleOf[t], a + 1, a + 40) :
        a \in {b \in 0..Len(needleOf[t]) : b % 20 = 0 /\ b + 40 <= Len(needleOf[t])}}

\* Which pages hold a 40-character window of the needle of each text.
HoldsFullWindow ==
    [t \in TextIds |-> [u \in Urls |-> [i \in 1..numPages(u) |->
        \E w \in FullWindows(t) : includes(haystackOf[u][i], w)]]]

\* C10 (windows): in the chunked version every window of a needle of at
\* least 40 characters has 40 characters, so a scan for such a needle that
\* ended in the loop ended on a page that holds a 40-character window of it.
C10_FullWindowsOnly ==
    \A k \in DOMAIN scans :
        LET s == scans[k]
        IN (/\ build = "chunked"
            /\ Len(needleOf[s.frag.texto]) >= 40
            /\ s.outcome = "match")
            => HoldsFullWindow[s.frag.texto][s.frag.pdf_url][s.result]

\* The first page of scan s's document that passes the test (none: 0).
FirstMatch(s) ==
    IF MatchingPages(s) = {} THEN 0
    ELSE CHOOSE i \in MatchingPages(s) : \A j \in MatchingPages(s) : i <= j

\* C11 (sequential scan in page order): within a scan no page is asked for
\* before the document is loaded; the pages asked for are 1, 2, 3, ... in
\* this order; at most one page is in flight, the next being asked for only
\* when the one before has been retrieved and tested; and no page after the
\* first page that passes the test is ever asked for.  Each step asks for at
\* most one page more, and does so only when the load or a test completes.
C11_SequentialInOrder ==
    /\ [](\A k \in DOMAIN scans :
            LET s == scans[k]
                n == Len(s.requested)
            IN /\ s.requested = [j \in 1..n |-> j]
               /\ s.pc = "getDocument" => n = 0
               /\ s.pc \in {"getPage", "getTextContent"}
                     => n = s.tested + 1 /\ s.i = n
               /\ s.tested <= n /\ n <= s.tested + 1
               /\ n <= numPages(s.frag.pdf_url)
               /\ FirstMatch(s) # 0 => n <= FirstMatch(s))
    /\ [][\A k \in DOMAIN scans :
            \/ scans'[k].requested = scans[k].requested
            \/ /\ scans'[k].requested
                    = Append(scans[k].requested, Len(scans[k].requested) + 1)
               /\ \/ scans[k].pc = "getDocument"
                  \/ /\ scans[k].pc = "getTextContent"
                     /\ scans'[k].tested = scans[k].tested + 1]_vars

\* C11's case: a scan of a document of three pages found the text on page 2
\* and is over, having asked for pages 1 and 2 and never for page 3.
C11_Witness ==
    \E k \in DOMAIN scans :
        /\ scans[k].pc = "done"
        /\ numPages(scans[k].frag.pdf_url) = 3
        /\ FirstMatch(scans[k]) = 2
        /\ 3 \in MatchingPages(scans[k])
        /\ scans[k].requested = << 1, 2 >>
        /\ scans[k].tested = 2

====
